---- MODULE Spec2Model ----
(***************************************************************************)
(* V2RayClient (src/vpn.py): one client instance used by several caller    *)
(* threads.  The state is the instance's fields, the transport behind      *)
(* self.socket, and each caller thread's position in the operation it      *)
(* called.  Bytes are integers 0..255, byte strings are sequences of them. *)
(***************************************************************************)
EXTENDS Integers, Sequences, FiniteSets, TLC

\* ---------------------------------------------------------------- bounds
\* Sockets one instance creates over a run.
MaxHandles == 2
\* sendall() calls recorded on one transport.
MaxWrites == 2
\* Largest value a decoded length field is told apart from (larger ones
\* saturate here; every buffer of the model is far shorter).
LenCap == 4194304

\* ------------------------------------------------------------ the callers
Threads == {"t1", "t2"}
NoThread == "nobody"
Ops == {"connect", "close", "send", "receive"}

\* ------------------------------------------------------------ descriptors
\* Text is a sequence of one-character strings.  A descriptor is what
\* urllib.parse hands to _parse_config: the scheme as written, the netloc,
\* and the query as parse_qs decodes it (a function from the keys present).
Vless == <<"v", "l", "e", "s", "s">>
VlessUpper == <<"V", "L", "E", "S", "S">>
Http == <<"h", "t", "t", "p">>
User == <<"u", "1">>
Ip4 == <<"1", "0", ".", "0", ".", "0", ".", "1">>
HostName == <<"h", ".", "i", "o">>
SniName == <<"s", ".", "i", "o">>
At == <<"@">>
Colon == <<":">>

\* netlocs that parse: an IPv4 literal or a host name, ports in and out of
\* the two-byte range
Netlocs ==
  { User \o At \o Ip4 \o Colon \o <<"4", "4", "3">>,
    User \o At \o HostName \o Colon \o <<"4", "4", "3">>,
    User \o At \o Ip4 \o Colon \o <<"7", "0", "0", "0", "0">> }

\* netlocs with a port segment that is negative, not a number, empty or
\* missing, and one without the @ separator
OddNetlocs ==
  { User \o At \o Ip4 \o Colon \o <<"-", "1">>,
    User \o At \o Ip4 \o Colon \o <<"4", "x">>,
    User \o At \o Ip4 \o Colon,
    User \o At \o Ip4,
    Ip4 \o Colon \o <<"4", "4", "3">> }

Queries ==
  { [encryption |-> "none"],
    [type |-> "tcp", security |-> "tls"],
    [type |-> "ws"],
    [type |-> "ws", security |-> "tls", path |-> <<"/", "w", "s">>,
     sni |-> SniName, host |-> HostName],
    [type |-> "grpc"] }

Url(scheme, netloc, query) ==
  [scheme |-> scheme, netloc |-> netloc, query |-> query]

Descriptors ==
  {Url(Vless, n, q) : n \in Netlocs, q \in Queries}
    \cup {Url(Vless, n, [encryption |-> "none"]) : n \in OddNetlocs}
    \cup {Url(sch, User \o At \o Ip4 \o Colon \o <<"4", "4", "3">>,
                [encryption |-> "none"]) :
            sch \in {VlessUpper, Http}}

\* payloads callers hand to send()
Payloads == { <<>>, <<7>> }

None == [tag |-> "None", data |-> <<>>]
True == [tag |-> "True", data |-> <<>>]
False == [tag |-> "False", data |-> <<>>]
Pending == [tag |-> "pending", data |-> <<>>]
Bytes(b) == [tag |-> "bytes", data |-> b]
NoSocket == 0

VARIABLES
  \* the instance: construction outcome and configuration fields
  error, config_url, server_address, server_port, uuid_str, security,
  allow_insecure, sni, path, host, network, ws_header,
  \* the instance: connection state
  socket, connected, lock,
  \* the callers
  pc, op, ret,
  \* the transport: sockets created, sockets open, chunks written and
  \* payloads sent on the current socket, calls of the latest step, bytes
  \* the latest recv() of receive() returned, response the latest handshake
  \* of _connect_ws read
  opened, live, wire, sent, io, rx, reply,
  \* the frame codec applied on its own: stage, input, frame, result
  cpc, cin, cframe, cout,
  \* AirQualityBot (src/main.py): position of the handler, the chat of the
  \* incoming message, the configured admin chat, parts still to send,
  \* messages Telegram accepted
  bpc, message_chat_id, chat_id, msg_parts, outbox,
  \* _send_with_retry: the function retried, the max_retries argument, the
  \* effective max_retries, the loop index, outcomes of the calls made, the
  \* value returned
  func, given, max_retries, attempt, tries, result

config == <<config_url, server_address, server_port, uuid_str, security,
            allow_insecure, sni, path, host, network, ws_header>>
codec == <<cpc, cin, cframe, cout>>
bot == <<bpc, message_chat_id, chat_id, msg_parts, outbox, func, given,
         max_retries, attempt, tries, result>>
vars == <<error, config_url, server_address, server_port, uuid_str, security,
          allow_insecure, sni, path, host, network, ws_header, socket,
          connected, lock, pc, op, ret, opened, live, wire, sent, io, rx,
          reply, cpc, cin, cframe, cout, bpc, message_chat_id, chat_id, msg_parts,
          outbox, func, given, max_retries, attempt, tries, result>>

\* ------------------------------------------------------------ byte helpers
Min(a, b) == IF a < b THEN a ELSE b

RECURSIVE BitXor(_, _)
BitXor(a, b) ==
  IF a = 0 THEN b
  ELSE IF b = 0 THEN a
  ELSE ((a + b) % 2) + 2 * BitXor(a \div 2, b \div 2)

RECURSIVE BitAnd(_, _)
BitAnd(a, b) ==
  IF a = 0 \/ b = 0 THEN 0
  ELSE ((a % 2) * (b % 2)) + 2 * BitAnd(a \div 2, b \div 2)

\* int.to_bytes(n, "big") for 0 <= v < 256^n
RECURSIVE to_bytes(_, _)
to_bytes(v, n) ==
  IF n = 0 THEN <<>> ELSE Append(to_bytes(v \div 256, n - 1), v % 256)

\* int.from_bytes(bs, "big"), saturating at LenCap
RECURSIVE from_bytes(_)
from_bytes(bs) ==
  IF bs = <<>> THEN 0
  ELSE Min(LenCap,
           256 * from_bytes(SubSeq(bs, 1, Len(bs) - 1)) + bs[Len(bs)])

\* Python's frame[a:b] when b <= len(frame)
Slice(s, a, b) == SubSeq(s, a + 1, b)

\* ------------------------------------------------------------ text helpers
\* urlparse lower-cases the scheme
LowerChar(c) ==
  CASE c = "V" -> "v" [] c = "L" -> "l" [] c = "E" -> "e" [] c = "S" -> "s"
    [] c = "H" -> "h" [] c = "T" -> "t" [] c = "P" -> "p" [] OTHER -> c
Lower(text) == [i \in 1..Len(text) |-> LowerChar(text[i])]

\* str.split(sep) for a one-character separator: the pieces between its
\* occurrences, at least one
RECURSIVE Split(_, _)
Split(text, sep) ==
  IF \A i \in 1..Len(text) : text[i] # sep THEN <<text>>
  ELSE LET k == CHOOSE i \in 1..Len(text) :
                  text[i] = sep /\ \A j \in 1..(i - 1) : text[j] # sep
       IN  <<SubSeq(text, 1, k - 1)>>
             \o Split(SubSeq(text, k + 1, Len(text)), sep)

Digits == {"0", "1", "2", "3", "4", "5", "6", "7", "8", "9"}
DigitValue(c) ==
  CASE c = "0" -> 0 [] c = "1" -> 1 [] c = "2" -> 2 [] c = "3" -> 3
    [] c = "4" -> 4 [] c = "5" -> 5 [] c = "6" -> 6 [] c = "7" -> 7
    [] c = "8" -> 8 [] c = "9" -> 9

RECURSIVE Decimal(_)
Decimal(digits) ==
  IF digits = <<>> THEN 0
  ELSE 10 * Decimal(SubSeq(digits, 1, Len(digits) - 1))
         + DigitValue(digits[Len(digits)])

\* int(text): an optional sign and decimal digits, ValueError otherwise
int(text) ==
  LET signed == text # <<>> /\ text[1] \in {"-", "+"}
      digits == IF signed THEN Tail(text) ELSE text
  IN  IF digits = <<>> \/ \E i \in 1..Len(digits) : digits[i] \notin Digits
        THEN [raises |-> TRUE, value |-> 0]
        ELSE [raises |-> FALSE,
              value |-> IF signed /\ text[1] = "-" THEN 0 - Decimal(digits)
                        ELSE Decimal(digits)]

RECURSIVE Power256(_)
Power256(n) == IF n = 0 THEN 1 ELSE 256 * Power256(n - 1)

\* socket.inet_aton(text): one to four decimal parts, the last one filling
\* the bytes that remain (a single part fills all four: every number of
\* the model fits); <<>> stands for its OSError
inet_aton(text) ==
  LET parts == Split(text, ".")
      n == Len(parts)
      numeric == \A k \in 1..n : ~int(parts[k]).raises /\ parts[k][1] \in Digits
  IN  IF n > 4 \/ ~numeric THEN <<>>
      ELSE IF \E k \in 1..(n - 1) : int(parts[k]).value > 255 THEN <<>>
      ELSE IF n > 1 /\ int(parts[n]).value >= Power256(5 - n) THEN <<>>
      ELSE [k \in 1..(n - 1) |-> int(parts[k]).value]
             \o to_bytes(int(parts[n]).value, 5 - n)

\* ------------------------------------------------------------------ codec
\* _generate_vless_header raises when inet_aton rejects the address or the
\* port does not fit two bytes (OverflowError of to_bytes).
vless_raises ==
  inet_aton(server_address) = <<>> \/ server_port < 0 \/ server_port > 65535

\* mutant: the port written as one byte
_generate_vless_header_ShortPort(payload) ==
  <<1, 0>> \o <<1>> \o inet_aton(server_address)
    \o to_bytes(server_port, 1) \o payload

_generate_vless_header(payload) ==
  LET command == <<1, 0>>
      address_type == <<1>>
      address == inet_aton(server_address)
      port == to_bytes(server_port, 2)
      header == command \o address_type \o address \o port
  IN  header \o payload

\* mutant: the inline length tier taken one byte too far
_create_websocket_frame_OffByOne(data) ==
  <<130>>
    \o (IF Len(data) <= 126 THEN <<Len(data)>>
        ELSE IF Len(data) <= 65535 THEN <<126>> \o to_bytes(Len(data), 2)
        ELSE <<127>> \o to_bytes(Len(data), 8))
    \o data

\* mutant: the 2-byte length written low byte first
_create_websocket_frame_LittleEndian(data) ==
  <<130>>
    \o (IF Len(data) <= 125 THEN <<Len(data)>>
        ELSE IF Len(data) <= 65535
          THEN <<126, Len(data) % 256, Len(data) \div 256>>
        ELSE <<127>> \o to_bytes(Len(data), 8))
    \o data

_create_websocket_frame(data) ==
  LET opcode == 2
      payload_len == Len(data)
      first == <<opcode + 128>>
      length ==
        IF payload_len <= 125 THEN <<payload_len>>
        ELSE IF payload_len <= 65535 THEN <<126>> \o to_bytes(payload_len, 2)
        ELSE <<127>> \o to_bytes(payload_len, 8)
  IN  first \o length \o data

\* mutant: the unmasked payload taken up to the end of the buffer
UnmaskedPayload_ToEnd(frame, data_start, payload_len) ==
  IF Len(frame) < data_start + payload_len THEN None
  ELSE Bytes(SubSeq(frame, data_start + 1, Len(frame)))

\* mutant: the unmasked payload sliced without the length check (a Python
\* slice past the end is cut at the end)
UnmaskedPayload_Unchecked(frame, data_start, payload_len) ==
  Bytes(SubSeq(frame, data_start + 1,
               Min(Len(frame), data_start + payload_len)))

\* the payload after the length field, from data_start on
UnmaskedPayload(frame, data_start, payload_len) ==
  IF Len(frame) < data_start + payload_len THEN None
  ELSE Bytes(Slice(frame, data_start, data_start + payload_len))

\* mutant: the masked branch returns the payload without unmasking it
MaskedPayload_NoUnmask(frame, start, payload_len) ==
  IF Len(frame) < start + 4 + payload_len THEN None
  ELSE Bytes(Slice(frame, start + 4, start + 4 + payload_len))

MaskedPayload(frame, start, payload_len) ==
  IF Len(frame) < start + 4 THEN None
  ELSE LET masking_key == Slice(frame, start, start + 4)
           data_start == start + 4
       IN  IF Len(frame) < data_start + payload_len THEN None
           ELSE LET masked_payload ==
                      Slice(frame, data_start, data_start + payload_len)
                IN  Bytes([i \in 1..payload_len |->
                             BitXor(masked_payload[i],
                                    masking_key[((i - 1) % 4) + 1])])

FramePayload(frame, masked, data_start, payload_len) ==
  IF masked # 0 THEN MaskedPayload(frame, data_start, payload_len)
  ELSE UnmaskedPayload(frame, data_start, payload_len)

\* How far into the buffer the parse reads (the index after the last byte it
\* indexes or slices), branch by branch as _parse_websocket_frame.
UnmaskedReads(frame, data_start, payload_len) ==
  IF Len(frame) < data_start + payload_len THEN data_start
  ELSE data_start + payload_len

MaskedReads(frame, start, payload_len) ==
  IF Len(frame) < start + 4 THEN start
  ELSE IF Len(frame) < start + 4 + payload_len THEN start + 4
  ELSE start + 4 + payload_len

PayloadReads(frame, masked, data_start, payload_len) ==
  IF masked # 0 THEN MaskedReads(frame, data_start, payload_len)
  ELSE UnmaskedReads(frame, data_start, payload_len)

parse_reads(frame) ==
  IF Len(frame) < 2 THEN 0
  ELSE LET opcode == BitAnd(frame[1], 15)
           masked == BitAnd(frame[2], 128)
           len7 == BitAnd(frame[2], 127)
       IN  IF opcode # 2 THEN 2
           ELSE IF len7 = 126
             THEN IF Len(frame) < 4 THEN 2
                  ELSE PayloadReads(frame, masked, 4,
                                    from_bytes(Slice(frame, 2, 4)))
           ELSE IF len7 = 127
             THEN IF Len(frame) < 10 THEN 2
                  ELSE PayloadReads(frame, masked, 10,
                                    from_bytes(Slice(frame, 2, 10)))
           ELSE PayloadReads(frame, masked, 2, len7)

_parse_websocket_frame(frame) ==
  IF Len(frame) < 2 THEN None
  ELSE LET opcode == BitAnd(frame[1], 15)
           masked == BitAnd(frame[2], 128)
           len7 == BitAnd(frame[2], 127)
       IN  IF opcode # 2 THEN None
           ELSE IF len7 = 126
             THEN IF Len(frame) < 4 THEN None
                  ELSE FramePayload(frame, masked, 4,
                                    from_bytes(Slice(frame, 2, 4)))
           ELSE IF len7 = 127
             THEN IF Len(frame) < 10 THEN None
                  ELSE FramePayload(frame, masked, 10,
                                    from_bytes(Slice(frame, 2, 10)))
           ELSE FramePayload(frame, masked, 2, len7)

\* ------------------------------------------------------------ the transport
\* what socket.recv may hand to receive(): peer closed (empty), raw bytes /
\* an unmasked binary frame, a text frame, a frame cut short, a masked
\* binary frame, a frame with a 16-bit length, a lone first byte, a masked
\* frame cut inside its key, two frames in one read
Reads ==
  { <<>>, <<130, 1, 7>>, <<129, 1, 7>>, <<130, 5, 7>>,
    <<130, 129, 1, 2, 3, 4, 6>>, <<130, 126, 0, 1, 7>>, <<130>>,
    <<130, 129, 1, 2>>, <<130, 1, 7, 130, 1, 8>> }

\* what the server answers to the Upgrade request, as lines of tokens
Responses ==
  { << <<"HTTP/1.1", "101", "Switching", "Protocols">>,
       <<"Upgrade:", "websocket">> >>,
    << <<"HTTP/1.1", "101", "OK">> >>,
    << <<"HTTP/1.1", "403", "Forbidden">> >>,
    << <<"HTTP/1.1", "200", "OK">>,
       <<"X-Note:", "101", "Switching", "Protocols">> >> }

\* "101 Switching Protocols" in response
Phrase == <<"101", "Switching", "Protocols">>
InLine(line) ==
  \E i \in 1..Len(line) :
    i + Len(Phrase) - 1 <= Len(line)
    /\ SubSeq(line, i, i + Len(Phrase) - 1) = Phrase
HasSwitchingProtocols(response) ==
  \E k \in 1..Len(response) : InLine(response[k])

\* ---------------------------------------------------------- _parse_config
Get(query, key, default) ==
  IF key \in DOMAIN query THEN query[key] ELSE default

NoHeaders == [set |-> FALSE, UserAgent |-> "", Origin |-> <<>>]

\* the fields as __init__ sets them before _parse_config (None: <<>>, 0)
Unparsed(err) ==
  [error |-> err, server_address |-> <<>>, server_port |-> 0,
   uuid_str |-> <<>>, security |-> "none", sni |-> <<>>, path |-> <<"/">>,
   host |-> <<>>, network |-> "tcp", ws_header |-> NoHeaders]

\* mutant: no scheme test
scheme_ok_Any(url) == TRUE

\* parsed_url.scheme == "vless", on the scheme urlparse has lower-cased
scheme_ok(url) == Lower(url.scheme) = Vless

\* the fields of the instance, or the exception that leaves construction
\* (the instance is then never handed to the caller)
_parse_config(url) ==
  IF ~scheme_ok(url) THEN Unparsed("ValueError: Invalid scheme")
  ELSE LET at == Split(url.netloc, "@")
       IN  IF Len(at) < 2 THEN Unparsed("IndexError")
           ELSE LET host_port == Split(at[2], ":")
                IN  IF Len(host_port) < 2 THEN Unparsed("IndexError")
                    ELSE IF int(host_port[2]).raises
                      THEN Unparsed("ValueError: invalid literal for int()")
                    ELSE LET address == host_port[1]
                             hostname == Get(url.query, "host", address)
                             net == Get(url.query, "type", "tcp")
                         IN  [error |-> "none",
                              server_address |-> address,
                              server_port |-> int(host_port[2]).value,
                              uuid_str |-> at[1],
                              security |-> Get(url.query, "security", "none"),
                              sni |-> Get(url.query, "sni", address),
                              path |-> Get(url.query, "path", <<"/">>),
                              host |-> hostname,
                              network |-> net,
                              ws_header |->
                                IF net = "ws"
                                  THEN [set |-> TRUE,
                                        UserAgent |-> "Mozilla/5.0",
                                        Origin |-> <<"https://">> \o hostname]
                                  ELSE NoHeaders]

\* ---------------------------------------------------------------- __init__
\* V2RayClient(url)
Construct(url) ==
  LET parsed == _parse_config(url)
  IN  /\ config_url = url
      /\ error = parsed.error
      /\ server_address = parsed.server_address
      /\ server_port = parsed.server_port
      /\ uuid_str = parsed.uuid_str
      /\ security = parsed.security
      /\ allow_insecure = TRUE
      /\ sni = parsed.sni
      /\ path = parsed.path
      /\ host = parsed.host
      /\ network = parsed.network
      /\ ws_header = parsed.ws_header
      /\ socket = NoSocket
      /\ connected = FALSE
      /\ lock = NoThread
      /\ pc = [t \in Threads |-> "idle"]
      /\ op = [t \in Threads |-> "close"]
      /\ ret = [t \in Threads |-> Pending]
      /\ opened = 0
      /\ live = {}
      /\ wire = <<>>
      /\ sent = <<>>
      /\ io = <<>>
      /\ rx = <<>>
      /\ reply = <<>>

\* the codec is not run on its own
CodecOff == cpc = "off" /\ cin = <<>> /\ cframe = <<>> /\ cout = Pending

\* no handler of the bot is running
BotOff ==
  /\ bpc = "off" /\ message_chat_id = 0 /\ chat_id = 0
  /\ msg_parts = <<>> /\ outbox = <<>>
  /\ func = "none" /\ given = <<>> /\ max_retries = 0 /\ attempt = 0
  /\ tries = <<>> /\ result = Pending

Init == (\E url \in Descriptors : Construct(url)) /\ CodecOff /\ BotOff

\* ------------------------------------------------------------- the guard
\* threads whose call of o has not yet run its body
Queued(o) == {u \in Threads : pc[u] \in {"wait", "locked"} /\ op[u] = o}

\* mutant: the guard taken without waiting for its holder
LockAcquire_NoWait(t) == lock' = t

\* `with self.lock:` on entry: threading.Lock, not reentrant
LockAcquire(t) == lock = NoThread /\ lock' = t

\* leaving the `with` block by return
Return(t, v) ==
  /\ pc' = [pc EXCEPT ![t] = "idle"]
  /\ ret' = [ret EXCEPT ![t] = v]
  /\ lock' = NoThread

\* the except branches of send and receive (and receive's empty read) call
\* self.close(), which enters `with self.lock:` again
CallCloseInside(t) ==
  /\ pc' = [pc EXCEPT ![t] = "close_wait"]
  /\ UNCHANGED <<lock, ret>>

\* a caller thread calls an operation of the instance
Call(t, o) ==
  /\ pc[t] = "idle" /\ error = "none"
  /\ o = "connect" => opened + Cardinality(Queued("connect")) < MaxHandles
  /\ o = "send" => Len(wire) + Cardinality(Queued("send")) < MaxWrites
  /\ pc' = [pc EXCEPT ![t] = "wait"]
  /\ op' = [op EXCEPT ![t] = o]
  /\ ret' = [ret EXCEPT ![t] = Pending]
  /\ io' = <<>>
  /\ rx' = <<>>
  /\ reply' = <<>>
  /\ UNCHANGED <<error, config, codec, bot, socket, connected, lock, opened, live,
                 wire, sent>>

\* a thread blocked on the guard gets it
Acquire(t) ==
  /\ pc[t] \in {"wait", "close_wait"}
  /\ LockAcquire(t)
  /\ pc' = [pc EXCEPT ![t] = IF pc[t] = "wait" THEN "locked" ELSE "nested"]
  /\ io' = <<>>
  /\ UNCHANGED <<error, config, codec, bot, rx, reply, socket, connected, op, ret, opened, live, wire, sent>>

\* ---------------------------------------------------------------- connect
\* mutant: connect() without its "Already connected" check
already_connected_Unchecked == FALSE

already_connected == connected

connect(t) ==
  /\ pc[t] = "locked" /\ op[t] = "connect"
  /\ IF already_connected \/ network \notin {"tcp", "ws"}
       THEN Return(t, None)
       ELSE pc' = [pc EXCEPT ![t] = "connecting"] /\ UNCHANGED <<lock, ret>>
  /\ io' = <<>>
  /\ UNCHANGED <<error, config, codec, bot, rx, reply, socket, connected, op, opened, live, wire, sent>>

\* self.socket = self._create_socket(): a fresh, unconnected socket
_create_socket(t) ==
  /\ pc[t] = "connecting"
  /\ opened' = opened + 1
  /\ socket' = opened + 1
  /\ live' = live \cup {opened + 1}
  /\ wire' = <<>>
  /\ sent' = <<>>
  /\ pc' = [pc EXCEPT ![t] = "created"]
  /\ io' = <<"socket">>
  /\ UNCHANGED <<error, config, codec, bot, rx, reply, connected, lock, op, ret>>

\* mutant: the except branch drops the socket without closing it
ConnectFailed_Leak ==
  /\ connected' = FALSE
  /\ socket' = NoSocket
  /\ UNCHANGED live

\* the except branch of _connect_tcp and _connect_ws
ConnectFailed ==
  /\ connected' = FALSE
  /\ live' = IF socket # NoSocket THEN live \ {socket} ELSE live
  /\ socket' = NoSocket

ConnectErrors ==
  {"connect_error"} \cup (IF security = "tls" THEN {"tls_error"} ELSE {})

_connect_tcp(t) ==
  /\ pc[t] = "created" /\ network = "tcp"
  /\ \E outcome \in {"ok"} \cup ConnectErrors :
       IF outcome = "ok"
         THEN connected' = TRUE /\ io' = <<"connect">>
              /\ UNCHANGED <<socket, live>>
         ELSE ConnectFailed /\ io' = <<"connect", "close">>
  /\ Return(t, None)
  /\ UNCHANGED <<error, config, codec, bot, rx, reply, op, opened, wire, sent>>

\* mutant: the handshake's Host value stored into the extra headers
_connect_ws_StoresHost(t) ==
  /\ pc[t] = "created" /\ network = "ws"
  /\ \E outcome \in {"ok", "io_error"} \cup ConnectErrors,
        response \in Responses :
       /\ IF outcome = "ok" /\ HasSwitchingProtocols(response)
            THEN connected' = TRUE /\ io' = <<"connect", "sendall", "recv">>
                 /\ UNCHANGED <<socket, live>>
            ELSE ConnectFailed /\ io' = <<"connect", "close">>
       /\ reply' = IF outcome = "ok" THEN response ELSE <<>>
  /\ Return(t, None)
  /\ ws_header' = [ws_header EXCEPT !.Origin = host]
  /\ UNCHANGED <<error, config_url, server_address, server_port, uuid_str,
                 security, allow_insecure, sni, path, host, network, codec, bot,
                 rx, op, opened, wire, sent>>

_connect_ws(t) ==
  /\ pc[t] = "created" /\ network = "ws"
  /\ \E outcome \in {"ok", "io_error"} \cup ConnectErrors,
        response \in Responses :
       /\ IF outcome = "ok" /\ HasSwitchingProtocols(response)
            THEN connected' = TRUE /\ io' = <<"connect", "sendall", "recv">>
                 /\ UNCHANGED <<socket, live>>
            ELSE ConnectFailed /\ io' = <<"connect", "close">>
       /\ reply' = IF outcome = "ok" THEN response ELSE <<>>
  /\ Return(t, None)
  /\ UNCHANGED <<error, config, codec, bot, rx, op, opened, wire, sent>>

\* ------------------------------------------------------------------ close
\* mutant: close() forgets self.connected = False
CloseSocket_KeepFlag ==
  /\ live' = live \ {socket}
  /\ socket' = NoSocket
  /\ UNCHANGED connected

\* mutant: close() forgets self.socket = None
CloseSocket_KeepHandle ==
  /\ live' = live \ {socket}
  /\ connected' = FALSE
  /\ UNCHANGED socket

\* self.socket.close(); self.socket = None; self.connected = False
CloseSocket ==
  /\ live' = live \ {socket}
  /\ socket' = NoSocket
  /\ connected' = FALSE

\* run by a caller's close(), or by the close() that send and receive call
close(t) ==
  /\ pc[t] \in {"locked", "nested"}
  /\ pc[t] = "locked" => op[t] = "close"
  /\ IF socket # NoSocket
       THEN CloseSocket /\ io' = <<"close">>
       ELSE io' = <<>> /\ UNCHANGED <<socket, connected, live>>
  /\ Return(t, IF pc[t] = "nested" /\ op[t] = "send" THEN False ELSE None)
  /\ UNCHANGED <<error, config, codec, bot, rx, reply, op, opened, wire, sent>>

\* ----------------------------------------------------------- send, receive
\* mutant: send/receive without the fail-fast check
not_connected_Unchecked == FALSE

not_connected == ~connected \/ socket = NoSocket

\* mutant: a send() that finds the connection down opens a new one itself
send_Reconnects(t) ==
  /\ pc[t] = "locked" /\ op[t] = "send"
  /\ IF not_connected
       THEN /\ opened' = opened + 1
            /\ socket' = opened + 1
            /\ live' = {opened + 1}
            /\ connected' = TRUE
            /\ io' = <<"socket", "connect">>
       ELSE io' = <<>> /\ UNCHANGED <<socket, connected, opened, live>>
  /\ Return(t, True)
  /\ UNCHANGED <<error, config, codec, bot, rx, reply, op, wire, sent>>

send(t) ==
  /\ pc[t] = "locked" /\ op[t] = "send"
  /\ \E data \in Payloads, sendall_ok \in BOOLEAN :
       IF not_connected
         THEN Return(t, False) /\ io' = <<>> /\ UNCHANGED <<wire, sent>>
       ELSE IF network = "tcp" /\ vless_raises
         THEN CallCloseInside(t) /\ io' = <<>> /\ UNCHANGED <<wire, sent>>
       ELSE IF network \notin {"tcp", "ws"}
         THEN Return(t, True) /\ io' = <<>> /\ UNCHANGED <<wire, sent>>
       ELSE IF sendall_ok /\ socket \in live
         THEN /\ wire' = Append(wire,
                   IF network = "tcp" THEN _generate_vless_header(data)
                   ELSE _create_websocket_frame(data))
              /\ sent' = Append(sent, data)
              /\ io' = <<"sendall">>
              /\ Return(t, True)
       ELSE CallCloseInside(t) /\ io' = <<"sendall:raise">>
            /\ UNCHANGED <<wire, sent>>
  /\ UNCHANGED <<error, config, codec, bot, rx, reply, socket, connected, op, opened, live>>

receive(t) ==
  /\ pc[t] = "locked" /\ op[t] = "receive"
  /\ \E data \in Reads, recv_ok \in BOOLEAN :
       IF not_connected
         THEN Return(t, None) /\ io' = <<>> /\ rx' = <<>>
       ELSE IF network \notin {"tcp", "ws"}
         THEN Return(t, None) /\ io' = <<>> /\ rx' = <<>>
       ELSE IF ~(recv_ok /\ socket \in live) \/ data = <<>>
         THEN CallCloseInside(t) /\ rx' = <<>>
              /\ io' = IF recv_ok /\ socket \in live THEN <<"recv:eof">>
                       ELSE <<"recv:raise">>
       ELSE /\ io' = <<"recv">>
            /\ rx' = data
            /\ Return(t, IF network = "tcp" THEN Bytes(data)
                         ELSE _parse_websocket_frame(data))
  /\ UNCHANGED <<error, config, codec, bot, reply, socket, connected, op, opened,
                 live, wire, sent>>

\* ------------------------------------------------------------------- runs
Step(t) ==
  \/ Acquire(t)
  \/ connect(t)
  \/ _create_socket(t)
  \/ _connect_tcp(t)
  \/ _connect_ws(t)
  \/ close(t)
  \/ send(t)
  \/ receive(t)

Next ==
  \E t \in Threads :
    \/ \E o \in Ops : Call(t, o)
    \/ Step(t)

Spec == Init /\ [][Next]_vars

\* every thread that can take a step of its operation eventually takes one
FairSpec == Spec /\ \A t \in Threads : WF_vars(Step(t))

\* ------------------------------------------------- the codec on its own
\* the sizes at which _create_websocket_frame changes its length encoding
InlineMax == 125
ShortMax == 65535

\* payloads of the sizes around both changes, of two contents
Filled(n, k) == [i \in 1..n |-> (k * i) % 256]
CodecPayloads ==
  {Filled(n, k) :
     n \in {0, 1, 2, InlineMax, InlineMax + 1, 300, ShortMax, ShortMax + 1},
     k \in {0, 7}}

\* buffers a read may return: every prefix of a first byte, a length field
\* (with or without the mask bit), a key when masked, and three more bytes
LengthFields ==
  { <<0>>, <<1>>, <<3>>, <<5>>, <<126, 0, 2>>, <<126, 1, 0>>,
    <<127, 0, 0, 0, 0, 0, 0, 0, 2>>,
    <<127, 255, 255, 255, 255, 255, 255, 255, 255>> }
WholeBuffers ==
  {<<first, mask + field[1]>> \o Tail(field)
     \o (IF mask = 128 THEN <<1, 2, 3, 4>> ELSE <<>>) \o <<9, 8, 7>> :
     first \in {130, 129, 2}, mask \in {0, 128}, field \in LengthFields}
Buffers == UNION {{SubSeq(b, 1, n) : n \in 0..Len(b)} : b \in WholeBuffers}

\* configurations whose header can be built: addresses inet_aton accepts,
\* ports of two bytes
HeaderNetlocs ==
  {User \o At \o a \o Colon \o p :
     a \in {Ip4, <<"1", "9", "2", ".", "1", "6", "8", ".", "1", ".", "2", "5", "5">>,
            <<"1", "0", ".", "1">>},
     p \in {<<"0">>, <<"8", "0">>, <<"4", "4", "3">>,
            <<"6", "5", "5", "3", "5">>}}
HeaderPayloads == {<<>>, <<7>>, <<1, 0>>, <<255, 0, 255>>}
PlainUrl == Url(Vless, User \o At \o Ip4 \o Colon \o <<"4", "4", "3">>,
                [encryption |-> "none"])

CodecInit ==
  /\ \/ /\ cpc = "header_in"
        /\ \E n \in HeaderNetlocs : Construct(Url(Vless, n, [type |-> "tcp"]))
        /\ cin \in HeaderPayloads
     \/ /\ cpc = "encode_in" /\ Construct(PlainUrl) /\ cin \in CodecPayloads
     \/ /\ cpc = "decode_in" /\ Construct(PlainUrl) /\ cin \in Buffers
  /\ cframe = <<>>
  /\ cout = Pending
  /\ BotOff

client == <<error, config, socket, connected, lock, pc, op, ret, opened, live,
            wire, sent, io, rx, reply>>

\* _generate_vless_header(cin)
BuildHeader ==
  /\ cpc = "header_in" /\ ~vless_raises
  /\ cframe' = _generate_vless_header(cin)
  /\ cpc' = "header_out"
  /\ UNCHANGED <<client, bot, cin, cout>>

\* _create_websocket_frame(cin)
Encode ==
  /\ cpc = "encode_in"
  /\ cframe' = _create_websocket_frame(cin)
  /\ cpc' = "encoded"
  /\ UNCHANGED <<client, bot, cin, cout>>

\* _parse_websocket_frame of the frame just encoded
DecodeEncoded ==
  /\ cpc = "encoded"
  /\ cout' = _parse_websocket_frame(cframe)
  /\ cpc' = "roundtrip"
  /\ UNCHANGED <<client, bot, cin, cframe>>

\* _parse_websocket_frame(cin) of a buffer as read
DecodeRaw ==
  /\ cpc = "decode_in"
  /\ cout' = _parse_websocket_frame(cin)
  /\ cpc' = "decode_out"
  /\ UNCHANGED <<client, bot, cin, cframe>>

CodecNext == BuildHeader \/ Encode \/ DecodeEncoded \/ DecodeRaw

CodecSpec == CodecInit /\ [][CodecNext]_vars

\* ------------------------------------------- AirQualityBot (src/main.py)
\* Config.retry_max_attempts, and the longest text of one Telegram message
retry_max_attempts == 5
PartMax == 4096

\* chats that write to the bot (one of them is the configured admin chat),
\* and the largest max_retries argument tried
MaxChat == 2
MaxGiven == 2
Chats == 1..MaxChat
\* the max_retries argument: absent (None) or an integer
Givens == {<<>>} \cup {<<n>> : n \in (0 - 1)..MaxGiven}
\* lengths of the analysis text
Lengths == {1, PartMax, PartMax + 1}
\* how a call of the retried function ends: it returns, or raises
\* ConnectionError/RequestException, ApiException, or something else
Outcomes == {"ok", "network", "api", "other"}
\* what get_me and send_message return
Object == [tag |-> "object", data |-> <<>>]

\* arg or default: None and 0 are both falsy
or_default(arg, default) ==
  IF arg = <<>> \/ arg[1] = 0 THEN default ELSE arg[1]

\* mutant: every exception retried
is_network_error_Any(outcome) == outcome # "ok"

\* except (ConnectionError, RequestException)
is_network_error(outcome) == outcome = "network"

\* [message[i : i + 4096] for i in range(0, len(message), 4096)], by length
RECURSIVE split_parts(_)
split_parts(n) ==
  IF n <= 0 THEN <<>> ELSE <<Min(n, PartMax)>> \o split_parts(n - PartMax)
message_parts(n) == IF n > PartMax THEN split_parts(n) ELSE <<n>>

BotInit ==
  /\ Construct(PlainUrl) /\ CodecOff
  /\ bpc \in {"command", "probe"}
  /\ message_chat_id \in Chats /\ chat_id \in Chats
  /\ msg_parts = <<>> /\ outbox = <<>>
  /\ func = "none"
  /\ given \in (IF bpc = "probe" THEN Givens ELSE {<<>>})
  /\ max_retries = 0 /\ attempt = 0 /\ tries = <<>> /\ result = Pending

\* entry of _send_with_retry(f, max_retries=arg), up to the for loop
EnterRetry(f, arg) ==
  /\ func' = f
  /\ given' = arg
  /\ max_retries' = or_default(arg, retry_max_attempts)
  /\ attempt' = 0
  /\ tries' = <<>>
  /\ result' = Pending
  /\ bpc' = "attempt"

\* the /aqi handler, up to its first Telegram call
send_current_aqi ==
  /\ bpc = "command"
  /\ \E data_ok, analysis_ok \in BOOLEAN, n \in Lengths :
       IF data_ok /\ analysis_ok
         THEN /\ msg_parts' = <<n>>
              /\ EnterRetry("get_me", <<>>)
              /\ UNCHANGED outbox
         ELSE /\ outbox' = Append(outbox, [to |-> message_chat_id,
                                           text |-> "error", len |-> 1])
              /\ bpc' = "done"
              /\ UNCHANGED <<msg_parts, func, given, max_retries, attempt,
                             tries, result>>
  /\ UNCHANGED <<client, codec, message_chat_id, chat_id>>

\* _send_with_retry called on its own with a max_retries argument
CallSendWithRetry ==
  /\ bpc = "probe"
  /\ EnterRetry("probe", given)
  /\ UNCHANGED <<client, codec, message_chat_id, chat_id, msg_parts, outbox>>

\* one turn of the for loop of _send_with_retry (or its end)
_send_with_retry ==
  /\ bpc = "attempt"
  /\ IF attempt >= max_retries
       THEN /\ result' = False /\ bpc' = "returned"
            /\ UNCHANGED <<attempt, tries, outbox>>
       ELSE \E outcome \in Outcomes :
              /\ tries' = Append(tries, outcome)
              /\ IF outcome = "ok"
                   THEN /\ result' = Object /\ bpc' = "returned"
                        /\ outbox' =
                             IF func = "send_message"
                               THEN Append(outbox,
                                           [to |-> chat_id,
                                            text |-> "analysis",
                                            len |-> Head(msg_parts)])
                               ELSE outbox
                        /\ UNCHANGED attempt
                   ELSE IF is_network_error(outcome)
                           /\ attempt < max_retries - 1
                     THEN /\ attempt' = attempt + 1
                          /\ UNCHANGED <<bpc, result, outbox>>
                     ELSE /\ result' = False /\ bpc' = "returned"
                          /\ UNCHANGED <<attempt, outbox>>
  /\ UNCHANGED <<client, codec, message_chat_id, chat_id, msg_parts, func,
                 given, max_retries>>

\* send_update_to_telegram after the get_me ping
send_update_to_telegram ==
  /\ bpc = "returned" /\ func = "get_me"
  /\ IF result = False
       THEN /\ bpc' = "done"
            /\ UNCHANGED <<msg_parts, func, given, max_retries, attempt,
                           tries, result>>
       ELSE /\ msg_parts' = message_parts(msg_parts[1])
            /\ EnterRetry("send_message", <<>>)
  /\ UNCHANGED <<client, codec, message_chat_id, chat_id, outbox>>

\* _send_message_part returned: the next part, if any
_send_message_part ==
  /\ bpc = "returned" /\ func = "send_message"
  /\ msg_parts' = Tail(msg_parts)
  /\ IF Tail(msg_parts) # <<>>
       THEN EnterRetry("send_message", <<>>)
       ELSE /\ bpc' = "done"
            /\ UNCHANGED <<func, given, max_retries, attempt, tries, result>>
  /\ UNCHANGED <<client, codec, message_chat_id, chat_id, outbox>>

\* the direct call of _send_with_retry returned
SendWithRetryReturns ==
  /\ bpc = "returned" /\ func = "probe"
  /\ bpc' = "done"
  /\ UNCHANGED <<client, codec, message_chat_id, chat_id, msg_parts, outbox,
                 func, given, max_retries, attempt, tries, result>>

BotNext ==
  \/ send_current_aqi
  \/ CallSendWithRetry
  \/ _send_with_retry
  \/ send_update_to_telegram
  \/ _send_message_part
  \/ SendWithRetryReturns

BotSpec == BotInit /\ [][BotNext]_vars

\* =================================================================== claims
Disconnected == ~connected
HandleReleased == socket = NoSocket /\ live = {}

\* thread t runs the body of operation o in this step
Runs(t, o) == pc[t] = "locked" /\ op[t] = o /\ pc'[t] # "locked"

\* C1: a send() on a Connected connection whose transport write fails returns
\* false and leaves the connection Disconnected, its handle released and
\* cleared (tcp and ws alike).
C1_FailedWriteClosesAndReturnsFalse ==
  [][\A t \in Threads :
       (Runs(t, "send") /\ connected /\ io' = <<"sendall:raise">>)
         => /\ pc'[t] = "idle"
            /\ ret'[t] = False
            /\ Disconnected'
            /\ HandleReleased']_vars

\* C2: a receive() on a Connected connection whose transport read returns no
\* bytes or raises returns null and leaves the connection Disconnected, its
\* handle released and cleared.
C2_FailedReadClosesAndReturnsNull ==
  [][\A t \in Threads :
       (Runs(t, "receive") /\ connected
        /\ io' \in {<<"recv:eof">>, <<"recv:raise">>})
         => /\ pc'[t] = "idle"
            /\ ret'[t] = None
            /\ Disconnected'
            /\ HandleReleased']_vars

\* C3: on a tcp connection the successful sends since connect() put the
\* VLESS request header on the transport once, in front of the first
\* payload; every later write is the payload alone.
C3_HeaderWrittenOnce ==
  (network = "tcp" /\ Len(wire) >= 1)
    => /\ wire[1] = _generate_vless_header(sent[1])
       /\ \A i \in 2..Len(wire) : wire[i] = sent[i]

\* C4: at most one of connect, send, receive, close is inside the guard at
\* any time, whatever the interleaving of the callers.
InGuard(t) == pc[t] \in {"locked", "connecting", "created", "close_wait", "nested"}
C4_OneOperationInGuard ==
  Cardinality({t \in Threads : InGuard(t)}) <= 1
C4_Witness ==
  \E t, u \in Threads :
    t # u /\ InGuard(t) /\ pc[t] = "created" /\ pc[u] = "wait"

\* C5: whenever no operation holds the guard, the connected flag is true
\* exactly when a transport handle is present (and that handle is the one
\* open socket): close() racing send() leaves no dangling handle.
C5_NoDanglingHandle ==
  lock = NoThread
    => /\ connected <=> socket # NoSocket
       /\ live = IF socket = NoSocket THEN {} ELSE {socket}
C5_Witness ==
  \E t, u \in Threads :
    /\ lock = NoThread /\ io = <<"close">>
    /\ op[t] = "close" /\ pc[t] = "idle" /\ ret[t] = None
    /\ op[u] = "send" /\ pc[u] = "wait"
    /\ wire # <<>>

\* a send() whose transport write failed (not one whose header could not be
\* built) and that has not returned
SendWriteFailed(u) ==
  /\ pc[u] = "close_wait" /\ op[u] = "send"
  /\ ~(network = "tcp" /\ vless_raises)

\* C6: after a send() failed on a transport write error, a connect() called
\* on the instance runs to completion (io = <<>>: the connect() was called
\* after the write failed, Call being the only step that can follow it).
C6_ConnectCompletesAfterFailedSend ==
  \A t \in Threads :
    ((\E u \in Threads : SendWriteFailed(u))
     /\ io = <<>> /\ pc[t] = "wait" /\ op[t] = "connect")
      ~> (pc[t] = "idle" /\ ret[t] = None)

\* C7: in a Disconnected state send() returns false and receive() returns
\* null, with no transport read or write and the state and handle unchanged.
C7_FailFastWhenDisconnected ==
  [][\A t \in Threads :
       ((Runs(t, "send") \/ Runs(t, "receive")) /\ Disconnected)
         => /\ pc'[t] = "idle"
            /\ ret'[t] = IF op[t] = "send" THEN False ELSE None
            /\ io' = <<>>
            /\ UNCHANGED <<socket, connected, live, opened, wire, sent>>]_vars
C7_Witness ==
  /\ Disconnected /\ opened >= 1 /\ lock = NoThread
  /\ op["t1"] = "send" /\ pc["t1"] = "idle" /\ ret["t1"] = False
  /\ op["t2"] = "receive" /\ pc["t2"] = "idle" /\ ret["t2"] = None

\* C8: every close() returns normally and leaves Disconnected with no
\* transport handle; a close() on an already Disconnected connection changes
\* nothing, so a second close() in a row has no further effect.
C8_CloseIdempotent ==
  [][\A t \in Threads :
       Runs(t, "close")
         => /\ pc'[t] = "idle" /\ ret'[t] = None
            /\ Disconnected' /\ HandleReleased'
            /\ Disconnected
                 => /\ io' = <<>>
                    /\ UNCHANGED <<socket, connected, live, opened,
                                   wire, sent>>]_vars
C8_Witness ==
  /\ \A t \in Threads : op[t] = "close" /\ pc[t] = "idle" /\ ret[t] = None
  /\ wire # <<>> /\ Disconnected /\ HandleReleased /\ io = <<>>

\* C9: connect() on a Connected connection opens no transport and leaves the
\* handle and the Connected state as they were.
C9_ConnectWhenConnectedIsNoOp ==
  [][\A t \in Threads :
       (Runs(t, "connect") /\ connected)
         => /\ pc'[t] = "idle"
            /\ io' = <<>>
            /\ UNCHANGED <<socket, connected, live, opened, wire, sent>>]_vars
C9_Witness ==
  /\ \A t \in Threads : op[t] = "connect" /\ pc[t] = "idle" /\ ret[t] = None
  /\ connected /\ opened = 1 /\ socket = 1

\* C10: a connect() that returns without having connected (connect, TLS or
\* handshake error, or a network type other than tcp and ws) leaves the
\* connection Disconnected with no handle held and no socket left open.
ConnectReturns(t) ==
  op[t] = "connect" /\ pc[t] \in {"locked", "created"} /\ pc'[t] = "idle"
C10_FailedConnectHoldsNoHandle ==
  [][\A t \in Threads :
       (ConnectReturns(t) /\ ~connected')
         => (~connected /\ HandleReleased')]_vars
C10_Witness ==
  \E t \in Threads :
    /\ op[t] = "connect" /\ pc[t] = "idle" /\ ret[t] = None
    /\ io = <<"connect", "close">> /\ HandleReleased

\* C11: the connection goes from Disconnected to Connected only in the step
\* in which a caller's connect() opens the transport successfully; no send,
\* receive or close step re-establishes it.
ConnectSucceeds(t) ==
  /\ op[t] = "connect" /\ pc[t] = "created" /\ pc'[t] = "idle"
  /\ io' \in {<<"connect">>, <<"connect", "sendall", "recv">>}
C11_OnlyConnectConnects ==
  [][(Disconnected /\ connected') => \E t \in Threads : ConnectSucceeds(t)]_vars
C11_Witness ==
  connected /\ opened = 2 /\ socket = 2 /\ live = {2}

\* ---- what a buffer declares, read off the frame layout (RFC 6455 5.2)
\* header: two bytes, then 2 or 8 bytes of extended length
HeaderLen(frame) ==
  LET len7 == frame[2] % 128
  IN  2 + (IF len7 = 126 THEN 2 ELSE IF len7 = 127 THEN 8 ELSE 0)
KeyLen(frame) == IF frame[2] >= 128 THEN 4 ELSE 0
DeclaredLen(frame) ==
  LET len7 == frame[2] % 128
  IN  IF len7 < 126 THEN len7
      ELSE from_bytes(SubSeq(frame, 3, HeaderLen(frame)))
\* bytes a buffer must hold for the fields it declares so far
FrameNeed(frame) ==
  IF Len(frame) < 2 THEN 2
  ELSE IF Len(frame) < HeaderLen(frame) THEN HeaderLen(frame)
  ELSE HeaderLen(frame) + KeyLen(frame) + DeclaredLen(frame)
Truncated(frame) == Len(frame) < FrameNeed(frame)
IsBinary(frame) == frame # <<>> /\ frame[1] % 16 = 2
\* the payload of a complete frame, unmasked with its key when it has one
DeclaredPayload(frame) ==
  LET start == HeaderLen(frame) + KeyLen(frame)
      raw == SubSeq(frame, start + 1, start + DeclaredLen(frame))
      key == SubSeq(frame, HeaderLen(frame) + 1, HeaderLen(frame) + 4)
  IN  IF KeyLen(frame) = 0 THEN raw
      ELSE [i \in 1..Len(raw) |-> BitXor(raw[i], key[((i - 1) % 4) + 1])]

\* a receive() on a Connected ws connection whose recv() returned bytes
WsReceives(t) ==
  Runs(t, "receive") /\ connected /\ network = "ws" /\ io' = <<"recv">>

\* C12: a receive() on a Connected ws connection that reads a frame cut short
\* of its declared fields closes the connection (Disconnected, handle
\* released) and returns null.
C12_TruncatedFrameClosesConnection ==
  [][\A t \in Threads :
       (WsReceives(t) /\ Truncated(rx'))
         => /\ pc'[t] = "idle"
            /\ ret'[t] = None
            /\ Disconnected'
            /\ HandleReleased']_vars

\* C13: receive() on a ws connection returns null for a truncated frame or a
\* non-binary opcode, and otherwise exactly the payload the complete binary
\* frame in the buffer declares, unmasked with the frame's key when the mask
\* bit is set.
C13_ReceiveReturnsDeclaredPayloadOrNull ==
  [][\A t \in Threads :
       WsReceives(t)
         => /\ pc'[t] = "idle"
            /\ ret'[t] = IF Truncated(rx') \/ ~IsBinary(rx') THEN None
                         ELSE Bytes(DeclaredPayload(rx'))]_vars
C13_Witness ==
  \E t \in Threads :
    /\ network = "ws" /\ op[t] = "receive" /\ pc[t] = "idle"
    /\ rx = <<130, 129, 1, 2, 3, 4, 6>> /\ ret[t] = Bytes(<<7>>)

\* C14: for every buffer the decoder reads no index at or beyond the buffer
\* length, and a buffer shorter than header + extended length + masking key
\* + declared payload gives the truncation result, not a payload.
C14_DecoderStaysInBuffer ==
  cpc = "decode_out"
    => /\ parse_reads(cin) <= Len(cin)
       /\ Truncated(cin) => cout = None
C14_Witness ==
  /\ cpc = "decode_out" /\ cout = None
  /\ cin = <<130, 255, 0, 0, 0, 0, 0, 0, 0, 2, 1, 2, 3, 4, 9>>

\* C15: every frame send() writes in ws mode has FIN set, opcode 2, the mask
\* bit set, a 4-byte masking key after the length field, and each payload
\* byte XORed with key[i mod 4].
MaskedBinaryFrame(frame, payload) ==
  /\ Len(frame) >= 2
  /\ frame[1] = 128 + 2
  /\ frame[2] >= 128
  /\ Len(frame) = HeaderLen(frame) + 4 + Len(payload)
  /\ DeclaredLen(frame) = Len(payload)
  /\ \A i \in 1..Len(payload) :
       frame[HeaderLen(frame) + 4 + i]
         = BitXor(payload[i], frame[HeaderLen(frame) + ((i - 1) % 4) + 1])
C15_SentFramesAreMasked ==
  network = "ws"
    => \A i \in 1..Len(wire) : MaskedBinaryFrame(wire[i], sent[i])

\* C16: decoding the frame encoded from a payload gives back the payload, in
\* each length tier and at the sizes 125, 126, 65535 and 65536.
C16_RoundTrip ==
  cpc = "roundtrip" => cout = Bytes(cin)
C16_Witness ==
  cpc = "roundtrip" /\ Len(cin) = InlineMax + 1 /\ cframe[2] = 126
  /\ cout = Bytes(cin)

\* C17 as stated: the header-and-payload is 8 + len(payload) bytes long and
\* starts with the command constant.
C17_HeaderIsEightBytes ==
  cpc = "header_out"
    => Len(cframe) = 8 + Len(cin) /\ SubSeq(cframe, 1, 2) = <<1, 0>>

\* C17 (amended): the result is 9 + len(payload) bytes long: the 2 command
\* bytes 01 00, the address type 01, the 4 address bytes, the port as 2
\* big-endian bytes, then the payload unchanged.
C17_HeaderLayout ==
  cpc = "header_out"
    => /\ Len(cframe) = 9 + Len(cin)
       /\ SubSeq(cframe, 1, 2) = <<1, 0>>
       /\ cframe[3] = 1
       /\ SubSeq(cframe, 4, 7) = inet_aton(server_address)
       /\ cframe[8] = server_port \div 256 /\ cframe[9] = server_port % 256
       /\ SubSeq(cframe, 10, Len(cframe)) = cin
C17_Witness ==
  cpc = "header_out" /\ server_port = 65535 /\ cin = <<255, 0, 255>>
  /\ SubSeq(cframe, 4, 7) = <<192, 168, 1, 255>>

\* the port segment of a descriptor as the claims read it: the text after
\* the colon of the part after @
HasPortSegment(url) ==
  /\ Len(Split(url.netloc, "@")) >= 2
  /\ Len(Split(Split(url.netloc, "@")[2], ":")) >= 2
PortSegment(url) == Split(Split(url.netloc, "@")[2], ":")[2]
PortInRange(text) ==
  /\ text # <<>>
  /\ \A i \in 1..Len(text) : text[i] \in Digits
  /\ Decimal(text) <= 65535
NoInstance ==
  /\ error # "none"
  /\ \A t \in Threads : pc[t] = "idle" /\ ret[t] = Pending
  /\ opened = 0 /\ wire = <<>>

\* C18: a descriptor whose port segment is not a base-10 integer in 0..65535
\* fails at construction; no instance has an out-of-range or defaulted port.
C18_BadPortFailsConstruction ==
  /\ ~(HasPortSegment(config_url) /\ PortInRange(PortSegment(config_url)))
       => error # "none"
  /\ error = "none" => server_port \in 0..65535

C20_ConfigReadOnly ==
  [][<<server_address, server_port, uuid_str, security, allow_insecure, sni,
       path, host, network, ws_header>>'
     = <<server_address, server_port, uuid_str, security, allow_insecure, sni,
         path, host, network, ws_header>>]_vars
C20_Witness ==
  /\ network = "ws" /\ ws_header.set
  /\ Len(wire) = MaxWrites /\ opened = MaxHandles
  /\ ~connected /\ socket = NoSocket
  /\ \E t \in Threads : pc[t] = "idle" /\ ret[t] = None /\ op[t] = "close"

\* the status line of a handshake response, and whether it carries 101
StatusLine(response) == response[1]
StatusHas101(response) ==
  \E i \in 1..Len(StatusLine(response)) : StatusLine(response)[i] = "101"
WsHandshakeRead(t) ==
  /\ op[t] = "connect" /\ pc[t] = "created" /\ network = "ws"
  /\ pc'[t] = "idle" /\ reply' # <<>>

\* C21: a ws connect() that read a handshake response ends Connected exactly
\* when the response's status line contains 101; the other lines of the
\* response do not affect the outcome.
C21_ConnectedIffStatus101 ==
  [][\A t \in Threads :
       WsHandshakeRead(t) => (connected' <=> StatusHas101(reply'))]_vars

\* the number a big-endian byte string writes
RECURSIVE BigEndian(_)
BigEndian(bs) ==
  IF bs = <<>> THEN 0
  ELSE 256 * BigEndian(SubSeq(bs, 1, Len(bs) - 1)) + bs[Len(bs)]

\* C22: the encoder picks the length encoding from the payload size alone:
\* up to 125 bytes the length is the low 7 bits of the second byte, from 126
\* to 65535 the marker 126 and the length in 2 big-endian bytes, above that
\* the marker 127 and the length in 8 big-endian bytes; the length the frame
\* declares is len(payload).
C22_LengthEncodingBySize ==
  cpc \in {"encoded", "roundtrip"}
    => LET n == Len(cin)
           marker == cframe[2] % 128
       IN  /\ n <= 125 => marker = n /\ Len(cframe) = 2 + n
           /\ (125 < n /\ n <= 65535)
                => /\ marker = 126
                   /\ BigEndian(SubSeq(cframe, 3, 4)) = n
                   /\ Len(cframe) = 4 + n
           /\ n > 65535
                => /\ marker = 127
                   /\ SubSeq(cframe, 3, 6) = <<0, 0, 0, 0>>
                   /\ BigEndian(SubSeq(cframe, 7, 10)) = n
                   /\ Len(cframe) = 10 + n
           /\ DeclaredLen(cframe) = n
C22_Witness ==
  cpc = "encoded" /\ Len(cin) = 300 /\ cin[1] = 7
  /\ SubSeq(cframe, 1, 4) = <<130, 126, 1, 44>>

\* C23: no reachable state has an operation waiting for the guard while its
\* own thread holds it (such a wait never ends, and every other caller
\* waits behind it).
C23_NoWaitOnOwnGuard ==
  \A t \in Threads : ~(pc[t] = "close_wait" /\ lock = t)

\* a ws read that holds one complete binary frame and more bytes after it
HasTrailingBytes(frame) ==
  IsBinary(frame) /\ ~Truncated(frame) /\ Len(frame) > FrameNeed(frame)

\* C24: a ws receive() returns the payload of the first frame of its one
\* read and nothing of the bytes after it; what a receive() returns comes
\* from its own read only, so the dropped bytes are returned by no later call.
C24_OnlyFirstFrameOfRead ==
  [][\A t \in Threads :
       WsReceives(t)
         => /\ HasTrailingBytes(rx')
                => /\ ret'[t] = Bytes(DeclaredPayload(rx'))
                   /\ Len(ret'[t].data) = DeclaredLen(rx')
            /\ \/ ret'[t] = None
               \/ /\ IsBinary(rx') /\ ~Truncated(rx')
                  /\ ret'[t] = Bytes(DeclaredPayload(rx'))
            /\ UNCHANGED <<socket, connected, live>>]_vars
C24_Witness ==
  \E t \in Threads :
    /\ network = "ws" /\ op[t] = "receive" /\ pc[t] = "idle" /\ connected
    /\ rx = <<130, 1, 7, 130, 1, 8>> /\ ret[t] = Bytes(<<7>>)

\* ---- _send_with_retry as the claims read it
\* the attempts allowed when the max_retries argument itself is the limit
\* (the default when it is absent)
ArgumentLimit ==
  IF given = <<>> THEN retry_max_attempts
  ELSE IF given[1] < 0 THEN 0 ELSE given[1]
\* the attempts allowed when an argument of 0 counts as absent
EffectiveLimit ==
  IF given = <<>> \/ given[1] = 0 THEN retry_max_attempts
  ELSE IF given[1] < 0 THEN 0 ELSE given[1]
Last(seq) == seq[Len(seq)]
\* calls are repeated only after a network error; a further call is pending
\* only while every call so far raised one; the value returned is the
\* successful call's result, or False after the last network error, after
\* an API error or another exception, or when no call was allowed
RetryOutcome(limit) ==
  /\ \A i \in 1..(Len(tries) - 1) : tries[i] = "network"
  /\ bpc = "attempt"
       => /\ result = Pending
          /\ \A i \in 1..Len(tries) : tries[i] = "network"
          /\ limit > 0 => Len(tries) < limit
  /\ (bpc = "returned" /\ tries = <<>>) => (result = False /\ limit = 0)
  /\ (bpc = "returned" /\ tries # <<>>)
       => /\ Last(tries) = "ok" => result = Object
          /\ Last(tries) \in {"api", "other"} => result = False
          /\ Last(tries) = "network"
               => result = False /\ Len(tries) = limit

C26_AnalysisGoesToRequester ==
  \A i \in 1..Len(outbox) :
    outbox[i].text = "analysis" => outbox[i].to = message_chat_id

====
